---- MODULE Spec2Model ----
(***************************************************************************)
(* Model of the expenses application: the Category and Transaction tables  *)
(* (expenses/models.py), the TransactionForm (expenses/forms.py) and the   *)
(* views dashboard, add_transaction, edit_transaction, delete_transaction  *)
(* (expenses/views.py).                                                    *)
(*                                                                         *)
(* Representation.                                                         *)
(*   - An optional value (Python None / SQL NULL) is a set: {} is None and *)
(*     {x} is the value x.                                                 *)
(*   - A raw query-string value is a sequence of one-character strings;    *)
(*     "SUP2" stands for the character U+00B2 (superscript two).           *)
(*   - A date is its proleptic Gregorian ordinal (date.toordinal()).       *)
(*   - A Decimal amount with two places is an integer number of cents; a   *)
(*     float made from such a Decimal is represented by the same number    *)
(*     of cents (max_digits = 10 < 15 significant digits: the conversion   *)
(*     is injective).                                                      *)
(*   - date.today() is an input of the request: the day the system clock   *)
(*     shows when the handler reads it.                                    *)
(*   - One request is served at a time: a handler runs from the idle       *)
(*     state, leaves the request and its response in req / resp, and       *)
(*     Deliver returns the response to the client.                         *)
(***************************************************************************)
EXTENDS Integers, Sequences, FiniteSets, TLC

VARIABLES categories, transactions, nextCatId, nextTxId, req, resp

vars == <<categories, transactions, nextCatId, nextTxId, req, resp>>

store == <<categories, transactions, nextCatId, nextTxId>>

(***************************************************************************)
(* Bounds of the model.                                                    *)
(***************************************************************************)
MaxCat == 2

MaxTx == 2

(***************************************************************************)
(* Optional values.                                                        *)
(***************************************************************************)
None == {}

Some(x) == {x}

Get(o) == CHOOSE x \in o : TRUE

(***************************************************************************)
(* Calendar arithmetic of datetime.date.                                   *)
(***************************************************************************)
is_leap(y) == y % 4 = 0 /\ (y % 100 # 0 \/ y % 400 = 0)

days_in_month(y, m) ==
    IF m = 2 THEN (IF is_leap(y) THEN 29 ELSE 28)
    ELSE IF m \in {4, 6, 9, 11} THEN 30 ELSE 31

DAYS_BEFORE_MONTH == <<0, 31, 59, 90, 120, 151, 181, 212, 243, 273, 304, 334>>

days_before_month(y, m) ==
    DAYS_BEFORE_MONTH[m] + (IF m > 2 /\ is_leap(y) THEN 1 ELSE 0)

days_before_year(y) ==
    (y - 1) * 365 + ((y - 1) \div 4) - ((y - 1) \div 100) + ((y - 1) \div 400)

ymd2ord(y, m, d) == days_before_year(y) + days_before_month(y, m) + d

ord2ymd(ordinal) ==
    LET n0   == ordinal - 1
        n400 == n0 \div 146097
        r400 == n0 % 146097
        n100 == r400 \div 36524
        r100 == r400 % 36524
        n4   == r100 \div 1461
        r4   == r100 % 1461
        n1   == r4 \div 365
        n    == r4 % 365
        year == n400 * 400 + 1 + n100 * 100 + n4 * 4 + n1
        leapyear == n1 = 3 /\ (n4 # 24 \/ n100 = 3)
        month0 == (n + 50) \div 32
        prec0  == DAYS_BEFORE_MONTH[month0]
                    + (IF month0 > 2 /\ leapyear THEN 1 ELSE 0)
        month  == IF prec0 > n THEN month0 - 1 ELSE month0
        prec   == IF prec0 > n
                  THEN prec0 - (days_in_month(2001, month)
                                 + (IF month = 2 /\ leapyear THEN 1 ELSE 0))
                  ELSE prec0
    IN  IF n1 = 4 \/ n100 = 4
        THEN [y |-> year - 1, m |-> 12, d |-> 31]
        ELSE [y |-> year, m |-> month, d |-> n - prec + 1]

DateMin == ymd2ord(1, 1, 1)

DateMax == ymd2ord(9999, 12, 31)

\* date - timedelta(days): None stands for OverflowError
DateMinusDays(date, days) ==
    IF date - days < DateMin \/ date - days > DateMax
    THEN None ELSE Some(date - days)

DatePlusDays(date, days) == DateMinusDays(date, 0 - days)

\* date.strftime('%Y-%m-%d'): the year, month and day fields of the text
strftime(date) == ord2ymd(date)

(***************************************************************************)
(* The tables.                                                             *)
(***************************************************************************)
TRANSACTION_TYPES == {"income", "expense"}

CategoryNames == {"Food", "Uncategorized"}

Amounts == {250, 1000}

Today0 == ymd2ord(2025, 3, 1)

TxDates == {ymd2ord(2025, 2, 27), ymd2ord(2025, 3, 1)}

Notes == {None}

CatIds == 1..MaxCat

TxIds == 1..MaxTx

Idle == [view |-> "idle"]

NoResponse == [kind |-> "none"]

Init ==
    /\ categories = <<>>
    /\ transactions = <<>>
    /\ nextCatId = 1
    /\ nextTxId = 1
    /\ req = Idle
    /\ resp = NoResponse

(***************************************************************************)
(* Category table: rows are created and deleted through the ORM.           *)
(***************************************************************************)
CreateCategory(name) ==
    /\ req = Idle
    /\ nextCatId <= MaxCat
    /\ categories' = categories @@ (nextCatId :> [name |-> name])
    /\ nextCatId' = nextCatId + 1
    /\ req' = [view |-> "Category.create", pk |-> nextCatId]
    /\ resp' = [kind |-> "created"]
    /\ UNCHANGED <<transactions, nextTxId>>

\* faulty variant: on_delete=models.DO_NOTHING
DoNothing(txs, c) == txs

\* on_delete=models.SET_NULL: the rows that reference the category keep
\* every other field and get category = NULL
SetNull(txs, c) ==
    [i \in DOMAIN txs |->
        IF txs[i].category = Some(c)
        THEN [txs[i] EXCEPT !.category = None]
        ELSE txs[i]]

DeleteCategory(c) ==
    /\ req = Idle
    /\ c \in DOMAIN categories
    /\ transactions' = SetNull(transactions, c)
    /\ categories' = [i \in DOMAIN categories \ {c} |-> categories[i]]
    /\ req' = [view |-> "Category.delete", pk |-> c]
    /\ resp' = [kind |-> "deleted"]
    /\ UNCHANGED <<nextCatId, nextTxId>>

(***************************************************************************)
(* TransactionForm: the five editable fields and their validation.         *)
(***************************************************************************)
FormTypes == TRANSACTION_TYPES \cup {"transfer"}

FormCategories == {None} \cup {Some(c) : c \in CatIds}

FormData ==
    [type : FormTypes, category : FormCategories, amount : Amounts,
     date : TxDates, note : Notes]

\* type is one of the choices; category is required (null=True without
\* blank=True) and must be a row of Category
is_valid(form) ==
    /\ form.type \in TRANSACTION_TYPES
    /\ form.category # None
    /\ Get(form.category) \in DOMAIN categories

Methods == {"GET", "POST"}

add_transaction(method, form) ==
    /\ req = Idle
    /\ req' = [view |-> "add_transaction", method |-> method]
    /\ IF method = "POST" /\ is_valid(form)
       THEN /\ nextTxId <= MaxTx
            /\ transactions' = transactions @@ (nextTxId :> form)
            /\ nextTxId' = nextTxId + 1
            /\ resp' = [kind |-> "redirect"]
       ELSE /\ resp' = [kind |-> "render"]
            /\ UNCHANGED <<transactions, nextTxId>>
    /\ UNCHANGED <<categories, nextCatId>>

edit_transaction(method, pk, form) ==
    /\ req = Idle
    /\ req' = [view |-> "edit_transaction", method |-> method, pk |-> pk]
    /\ IF pk \notin DOMAIN transactions
       THEN /\ resp' = [kind |-> "not_found"]
            /\ UNCHANGED transactions
       ELSE IF method = "POST" /\ is_valid(form)
       THEN /\ transactions' = [transactions EXCEPT ![pk] = form]
            /\ resp' = [kind |-> "redirect"]
       ELSE /\ resp' = [kind |-> "render"]
            /\ UNCHANGED transactions
    /\ UNCHANGED <<categories, nextCatId, nextTxId>>

\* faulty variant: the row deleted whatever the method
delete_transaction_any_method(method, pk) ==
    /\ req = Idle
    /\ req' = [view |-> "delete_transaction", method |-> method, pk |-> pk]
    /\ IF pk \notin DOMAIN transactions
       THEN /\ resp' = [kind |-> "not_found"]
            /\ UNCHANGED transactions
       ELSE /\ transactions' = [i \in DOMAIN transactions \ {pk} |-> transactions[i]]
            /\ resp' = [kind |-> "redirect"]
    /\ UNCHANGED <<categories, nextCatId, nextTxId>>

delete_transaction(method, pk) ==
    /\ req = Idle
    /\ req' = [view |-> "delete_transaction", method |-> method, pk |-> pk]
    /\ IF pk \notin DOMAIN transactions
       THEN /\ resp' = [kind |-> "not_found"]
            /\ UNCHANGED transactions
       ELSE IF method = "POST"
       THEN /\ transactions' = [i \in DOMAIN transactions \ {pk} |-> transactions[i]]
            /\ resp' = [kind |-> "redirect"]
       ELSE /\ resp' = [kind |-> "render"]
            /\ UNCHANGED transactions
    /\ UNCHANGED <<categories, nextCatId, nextTxId>>

(***************************************************************************)
(* Raw query-string values and their parsing.                              *)
(***************************************************************************)
Digits == <<"0", "1", "2", "3", "4", "5", "6", "7", "8", "9">>

\* characters c with c.isdecimal(): what int() and the regex \d accept
DecimalDigits == {Digits[i] : i \in 1..Len(Digits)}

\* characters with c.isdigit() and not c.isdecimal()
OtherDigits == {"SUP2"}

NonZeroDigits == DecimalDigits \ {"0"}

DigitValue(c) == (CHOOSE i \in 1..Len(Digits) : Digits[i] = c) - 1

RECURSIVE DecimalValue(_)
DecimalValue(s) ==
    IF Len(s) = 0 THEN 0
    ELSE 10 * DecimalValue(SubSeq(s, 1, Len(s) - 1)) + DigitValue(s[Len(s)])

\* str.isdigit()
isdigit(s) ==
    /\ Len(s) > 0
    /\ \A i \in 1..Len(s) : s[i] \in DecimalDigits \cup OtherDigits

\* int(s) for a string of digit characters: None stands for ValueError
int(s) ==
    IF Len(s) > 0 /\ \A i \in 1..Len(s) : s[i] \in DecimalDigits
    THEN Some(DecimalValue(s)) ELSE None

\* the regex of %m at position i, of length len: 1[0-2] | 0[1-9] | [1-9]
MonthToken(s, i, len) ==
    /\ i + len - 1 <= Len(s)
    /\ IF len = 2
       THEN \/ s[i] = "1" /\ s[i + 1] \in {"0", "1", "2"}
            \/ s[i] = "0" /\ s[i + 1] \in NonZeroDigits
       ELSE s[i] \in NonZeroDigits

\* the regex of %d: 3[01] | [12]\d | 0[1-9] | [1-9] | ' '[1-9]
DayToken(s, i, len) ==
    /\ i + len - 1 <= Len(s)
    /\ IF len = 2
       THEN \/ s[i] = "3" /\ s[i + 1] \in {"0", "1"}
            \/ s[i] \in {"1", "2"} /\ s[i + 1] \in DecimalDigits
            \/ s[i] = "0" /\ s[i + 1] \in NonZeroDigits
            \/ s[i] = " " /\ s[i + 1] \in NonZeroDigits
       ELSE s[i] \in NonZeroDigits

\* the regex of "%Y-%m-%d" with a month of ml and a day of dl characters
FormatMatch(s, ml, dl) ==
    /\ Len(s) >= 5
    /\ \A i \in 1..4 : s[i] \in DecimalDigits
    /\ s[5] = "-"
    /\ MonthToken(s, 6, ml)
    /\ 6 + ml <= Len(s)
    /\ s[6 + ml] = "-"
    /\ DayToken(s, 7 + ml, dl)

\* the token lengths in the order the regex tries them
TokenLengths == <<<<2, 2>>, <<2, 1>>, <<1, 2>>, <<1, 1>>>>

\* datetime.strptime(s, "%Y-%m-%d").date(): None stands for ValueError
strptime(s) ==
    LET hits == {k \in 1..Len(TokenLengths) :
                    FormatMatch(s, TokenLengths[k][1], TokenLengths[k][2])}
    IN  IF hits = {} THEN None
        ELSE
          LET k  == CHOOSE k0 \in hits : \A k1 \in hits : k0 <= k1
              ml == TokenLengths[k][1]
              dl == TokenLengths[k][2]
              found_end == 6 + ml + dl
              year  == DecimalValue(SubSeq(s, 1, 4))
              month == DecimalValue(SubSeq(s, 6, 5 + ml))
              dtok  == SubSeq(s, 7 + ml, 6 + ml + dl)
              day   == DecimalValue(IF dtok[1] = " " THEN Tail(dtok) ELSE dtok)
          IN  IF Len(s) # found_end THEN None
              ELSE IF year < 1 \/ day > days_in_month(year, month) THEN None
              ELSE Some(ymd2ord(year, month, day))

\* parse_date(value) of the dashboard view
parse_date(value) ==
    IF value = None \/ Get(value) = <<>> THEN None
    ELSE strptime(Get(value))

(***************************************************************************)
(* Querysets: a queryset over Transaction is the set of ids of its rows.   *)
(***************************************************************************)
filter_date_gte(qs, d) == {i \in qs : transactions[i].date >= d}

\* faulty variant: date__lt in place of date__lte
filter_date_lt(qs, d) == {i \in qs : transactions[i].date < d}

filter_date_lte(qs, d) == {i \in qs : transactions[i].date <= d}

filter_category_id(qs, c) == {i \in qs : transactions[i].category = Some(c)}

filter_type(qs, t) == {i \in qs : transactions[i].type = t}

filter_date(qs, d) == {i \in qs : transactions[i].date = d}

RECURSIVE SumAmount(_)
SumAmount(qs) ==
    IF qs = {} THEN 0
    ELSE LET i == CHOOSE j \in qs : TRUE
         IN  transactions[i].amount + SumAmount(qs \ {i})

\* qs.aggregate(total=Sum('amount'))['total']: NULL over no rows
aggregate_sum(qs) == IF qs = {} THEN None ELSE Some(SumAmount(qs))

\* total or Decimal('0.00'): None and a zero Decimal are both falsy
or_zero(total) == IF total = None \/ Get(total) = 0 THEN 0 ELSE Get(total)

\* float(daily_total) if daily_total else 0
float_or_zero(total) == IF total = None \/ Get(total) = 0 THEN 0 ELSE Get(total)

\* the column category__name of a row, through the LEFT OUTER JOIN
category__name(i) ==
    IF transactions[i].category = None THEN None
    ELSE Some(categories[Get(transactions[i].category)].name)

\* faulty variant: an INNER JOIN, which loses the rows without a category
group_keys_inner_join(qs) == {category__name(i) : i \in qs} \ {None}

\* the keys of .values('category__name').annotate(...): one row per key
group_keys(qs) == {category__name(i) : i \in qs}

group_total(qs, key) == SumAmount({i \in qs : category__name(i) = key})

\* item['category__name'] or 'Uncategorized'
label_of(key) ==
    IF key = None \/ Get(key) = "" THEN "Uncategorized" ELSE Get(key)

\* the orders in which the database may return the rows of a set
RowOrders(S) ==
    {o \in [1..Cardinality(S) -> S] : \A a, b \in DOMAIN o : o[a] = o[b] => a = b}

(***************************************************************************)
(* The dashboard view.                                                     *)
(***************************************************************************)
\* lines 37-47: the four optional filters
by_start(qs, s_date) == IF s_date # None THEN filter_date_gte(qs, Get(s_date)) ELSE qs

by_end(qs, e_date) == IF e_date # None THEN filter_date_lte(qs, Get(e_date)) ELSE qs

\* category_id and category_id.isdigit()
category_filter_given(category_id) ==
    category_id # None /\ Get(category_id) # <<>> /\ isdigit(Get(category_id))

\* cat is int(category_id) where the filter is given, None where it is not
by_category(qs, cat) == IF cat # None THEN filter_category_id(qs, Get(cat)) ELSE qs

\* tx_type in ('income', 'expense')
type_filter_given(tx_type) == tx_type # None /\ Get(tx_type) \in {"income", "expense"}

by_type(qs, tx_type) ==
    IF type_filter_given(tx_type) THEN filter_type(qs, Get(tx_type)) ELSE qs

\* lines 34-47: the base queryset, then the filters in the order of the code
filtered_transactions(s_date, e_date, cat, tx_type) ==
    by_type(by_category(by_end(by_start(DOMAIN transactions, s_date), e_date), cat),
            tx_type)

\* line 78: the anchor of the trend
end_day(e_date, now) == IF e_date # None THEN Get(e_date) ELSE now

\* line 79: the first day of the window
start_day(anchor) == DateMinusDays(anchor, 6)

\* faulty variant: the trend read from the raw table
daily_rows_unfiltered(qs, day) ==
    filter_date(filter_type(DOMAIN transactions, "expense"), day)

\* lines 88-91: the rows a day of the trend sums
daily_rows(qs, day) == filter_date(filter_type(qs, "expense"), day)

\* lines 84-93: the seven days of the trend
last7_labels(first) == [i \in 1..7 |-> strftime(Get(DatePlusDays(first, i - 1)))]

last7_values(qs, first) ==
    [i \in 1..7 |->
        float_or_zero(aggregate_sum(daily_rows(qs, Get(DatePlusDays(first, i - 1)))))]

echo(value) == IF value = None THEN <<>> ELSE Get(value)

\* faulty variant: the totals added
balance_added(income, expense) == income + expense

\* line 58
balance_of(income, expense) == income - expense

\* lines 64-66: the rows category_data groups
category_rows(qs) == filter_type(qs, "expense")

\* lines 49-111: the context rendered for the queryset qs, the rows of
\* category_data coming in `order` and the trend starting on `first`
context(params, qs, order, first) ==
    LET income  == or_zero(aggregate_sum(filter_type(qs, "income")))
        expense == or_zero(aggregate_sum(filter_type(qs, "expense")))
        rows    == category_rows(qs)
    IN  [kind |-> "dashboard",
         transactions |-> qs,
         total_income |-> income,
         total_expense |-> expense,
         balance |-> balance_of(income, expense),
         categories |-> DOMAIN categories,
         expense_cat_labels |-> [k \in DOMAIN order |-> label_of(order[k])],
         expense_cat_values |-> [k \in DOMAIN order |-> group_total(rows, order[k])],
         last7_labels |-> last7_labels(first),
         last7_values |-> last7_values(qs, first),
         filter_start_date |-> echo(params.start_date),
         filter_end_date |-> echo(params.end_date),
         filter_category |-> echo(params.category),
         filter_type |-> IF params.type = None THEN "" ELSE Get(params.type)]

Raised(exception) == [kind |-> "error", exception |-> exception]

\* the responses the view can give to a request made when the clock shows
\* `now`: an exception that leaves the handler is a response of kind "error"
dashboard_responses(params, now) ==
    LET s_date == parse_date(params.start_date)
        e_date == parse_date(params.end_date)
        given  == category_filter_given(params.category)
        cat    == IF given THEN int(Get(params.category)) ELSE None
    IN  IF given /\ cat = None THEN {Raised("ValueError")}
        ELSE
          LET qs    == filtered_transactions(s_date, e_date, cat, params.type)
              first == start_day(end_day(e_date, now))
          IN  IF first = None THEN {Raised("OverflowError")}
              ELSE {context(params, qs, order, Get(first)) :
                      order \in RowOrders(group_keys(category_rows(qs)))}

\* the raw values the model sends
StartDateValues ==
    {None,
     Some(<<"2", "0", "2", "5", "-", "0", "3", "-", "0", "1">>)}

EndDateValues ==
    {None,
     Some(<<"2", "0", "2", "5", "-", "0", "2", "-", "2", "7">>),
     Some(<<"0", "0", "0", "1", "-", "0", "1", "-", "0", "3">>),
     Some(<<"2", "0", "2", "5", "-", "0", "2", "-", "3", "0">>)}

CategoryValues ==
    {None, Some(<<"1">>), Some(<<"a", "b", "c">>), Some(<<"SUP2">>)}

TypeValues == {None, Some("income"), Some("expense"), Some("Income")}

Params ==
    [start_date : StartDateValues, end_date : EndDateValues,
     category : CategoryValues, type : TypeValues]

\* the days the system clock may show
Clock == {Today0}

dashboard(params, now) ==
    /\ req = Idle
    /\ req' = [view |-> "dashboard", params |-> params, today |-> now]
    /\ resp' \in dashboard_responses(params, now)
    /\ UNCHANGED <<categories, transactions, nextCatId, nextTxId>>

(***************************************************************************)
(* The end of a request: the response is returned to the client.           *)
(***************************************************************************)
Deliver ==
    /\ req # Idle
    /\ req' = Idle
    /\ resp' = NoResponse
    /\ UNCHANGED <<categories, transactions, nextCatId, nextTxId>>

Next ==
    \/ \E name \in CategoryNames : CreateCategory(name)
    \/ \E c \in CatIds : DeleteCategory(c)
    \/ \E method \in Methods, form \in FormData : add_transaction(method, form)
    \/ \E method \in Methods, pk \in TxIds, form \in FormData :
          edit_transaction(method, pk, form)
    \/ \E method \in Methods, pk \in TxIds : delete_transaction(method, pk)
    \/ \E params \in Params, now \in Clock : dashboard(params, now)
    \/ Deliver

Spec == Init /\ [][Next]_vars

(***************************************************************************)
(* Properties.                                                             *)
(***************************************************************************)
\* a dashboard request that was answered with a rendered context
Rendered == req.view = "dashboard" /\ resp.kind = "dashboard"

\* the parsed criteria of the request being served: the values of s_date,
\* e_date, int(category_id) and tx_type where the filter is applied
ReqStart == parse_date(req.params.start_date)

ReqEnd == parse_date(req.params.end_date)

ReqCat ==
    IF category_filter_given(req.params.category)
    THEN int(Get(req.params.category)) ELSE None

ReqType == IF type_filter_given(req.params.type) THEN req.params.type ELSE None

AllTx == DOMAIN transactions

\* each criterion applied on its own to the whole table
OnlyStart(s) == IF s = None THEN AllTx
                ELSE {i \in AllTx : transactions[i].date >= Get(s)}

OnlyEnd(e) == IF e = None THEN AllTx
              ELSE {i \in AllTx : transactions[i].date <= Get(e)}

OnlyCat(c) == IF c = None THEN AllTx
              ELSE {i \in AllTx : transactions[i].category = c}

OnlyType(t) == IF t = None THEN AllTx
               ELSE {i \in AllTx : transactions[i].type = Get(t)}

Intersection(s, e, c, t) == OnlyStart(s) \cap OnlyEnd(e) \cap OnlyCat(c) \cap OnlyType(t)

FilterStep(k, qs, s, e, c, t) ==
    CASE k = 1 -> by_start(qs, s)
      [] k = 2 -> by_end(qs, e)
      [] k = 3 -> by_category(qs, c)
      [] k = 4 -> by_type(qs, t)

AppliedInOrder(o, s, e, c, t) ==
    FilterStep(o[4],
        FilterStep(o[3],
            FilterStep(o[2], FilterStep(o[1], AllTx, s, e, c, t), s, e, c, t),
            s, e, c, t),
        s, e, c, t)

FilterOrders == RowOrders(1..4)

\* C1: the set the dashboard aggregates over is the intersection of the sets
\* each present criterion selects on its own (an absent criterion selects
\* everything), whatever the order the filters are applied in, and it is
\* empty when the end date is earlier than the start date.
C1_FilteredSetIsIntersection ==
    Rendered =>
        LET s == ReqStart
            e == ReqEnd
            c == ReqCat
            t == req.params.type
        IN  /\ resp.transactions = Intersection(s, e, c, ReqType)
            /\ \A o \in FilterOrders : AppliedInOrder(o, s, e, c, t) = resp.transactions
            /\ (s # None /\ e # None /\ Get(e) < Get(s)) => resp.transactions = {}

\* C1 witness: an end date equal to the date of a stored transaction, with a
\* category and a type filter, selects some rows and leaves others out
C1_Witness ==
    /\ Rendered
    /\ ReqEnd # None /\ ReqCat # None /\ ReqType # None
    /\ resp.transactions # {}
    /\ resp.transactions # AllTx
    /\ \E i \in resp.transactions : transactions[i].date = Get(ReqEnd)

\* C2: balance = total_income - total_expense, the totals being the sums of
\* the amounts of the filtered income and expense rows (0 over no row).
C2_BalanceIsIncomeMinusExpense ==
    Rendered =>
        /\ resp.balance = resp.total_income - resp.total_expense
        /\ resp.total_income =
              SumAmount({i \in resp.transactions : transactions[i].type = "income"})
        /\ resp.total_expense =
              SumAmount({i \in resp.transactions : transactions[i].type = "expense"})

\* C2 witness: income and expense both present and a negative balance
C2_Witness ==
    /\ Rendered
    /\ resp.total_income > 0
    /\ resp.total_expense > 0
    /\ resp.balance < 0

RECURSIVE SeqSum(_)
SeqSum(s) == IF Len(s) = 0 THEN 0 ELSE Head(s) + SeqSum(Tail(s))

\* C4: the values of the category breakdown add up to total_expense, and
\* the labels and the values have the same length.
C4_BreakdownSumsToTotalExpense ==
    Rendered =>
        /\ SeqSum(resp.expense_cat_values) = resp.total_expense
        /\ Len(resp.expense_cat_labels) = Len(resp.expense_cat_values)

\* C4 witness: a filtered expense without a category beside one with a
\* category
C4_Witness ==
    /\ Rendered
    /\ Len(resp.expense_cat_values) = 2
    /\ \E i \in resp.transactions :
          transactions[i].type = "expense" /\ transactions[i].category = None

\* the anchor of the trend of the request being served
ReqAnchor == IF ReqEnd # None THEN Get(ReqEnd) ELSE req.today

ExpensesOn(S, day) ==
    {j \in S : transactions[j].type = "expense" /\ transactions[j].date = day}

\* C9: each trend value is the sum of the amounts of the expenses of the
\* filtered set dated that day (0 when there is none), the filtered set
\* being the rows of the table that meet every criterion of the request
\* (so a category filter restricts the trend to that category): all values
\* are 0 under type=income, and the days before a start date are 0.
C9_TrendReadsFilteredSet ==
    Rendered =>
        LET s == ReqStart
            anchor == ReqAnchor
            meet == Intersection(s, ReqEnd, ReqCat, ReqType)
        IN  /\ \A i \in 1..7 :
                  /\ resp.last7_values[i] =
                        SumAmount(ExpensesOn(resp.transactions, anchor - 7 + i))
                  /\ resp.last7_values[i] = SumAmount(ExpensesOn(meet, anchor - 7 + i))
            /\ ReqType = Some("income") => \A i \in 1..7 : resp.last7_values[i] = 0
            /\ s # None =>
                  \A i \in 1..7 : anchor - 7 + i < Get(s) => resp.last7_values[i] = 0

\* C9 witness: an expense of the table dated inside the window is left out
\* of the trend by the filters, beside a day that is not zero
C9_Witness ==
    /\ Rendered
    /\ \E i \in 1..7 :
          /\ ExpensesOn(AllTx, ReqAnchor - 7 + i) # {}
          /\ resp.last7_values[i] = 0
    /\ \E i \in 1..7 : resp.last7_values[i] > 0

\* every reference to a category is to a row of Category
ReferencesExist ==
    \A i \in DOMAIN transactions :
        transactions[i].category = None
        \/ Get(transactions[i].category) \in DOMAIN categories

\* a step that deletes category c
CategoryDeleted(c) == c \in DOMAIN categories /\ c \notin DOMAIN categories'

\* C7: a transaction's category is always absent or an existing Category;
\* deleting a Category removes no transaction, sets the category of exactly
\* the transactions that referenced it to null and changes nothing else.
C7_CategoryIsWeakReference ==
    /\ []ReferencesExist
    /\ [][\A c \in CatIds : CategoryDeleted(c) =>
            /\ DOMAIN transactions' = DOMAIN transactions
            /\ \A i \in DOMAIN transactions :
                  IF transactions[i].category = Some(c)
                  THEN transactions'[i] = [transactions[i] EXCEPT !.category = None]
                  ELSE transactions'[i] = transactions[i]]_vars

\* C7 witness: a category was deleted and a transaction that stays in the
\* table has no category
C7_Witness ==
    /\ req.view = "Category.delete"
    /\ \E i \in DOMAIN transactions : transactions[i].category = None

\* a step in which the view `view` handles a request
Handles(view) == req = Idle /\ req'.view = view

\* C8: edit and delete of an id that is not in the table answer not-found
\* and leave the store unchanged, whatever the method; delete of an existing
\* id removes exactly that row on POST and nothing on another method.
C8_NotFoundAndDeleteOnPost ==
    [][/\ (Handles("edit_transaction") \/ Handles("delete_transaction"))
            /\ req'.pk \notin DOMAIN transactions
          => resp'.kind = "not_found" /\ UNCHANGED store
       /\ Handles("delete_transaction") /\ req'.pk \in DOMAIN transactions
          => /\ resp'.kind # "not_found"
             /\ UNCHANGED <<categories, nextCatId, nextTxId>>
             /\ IF req'.method = "POST"
                THEN /\ DOMAIN transactions' = DOMAIN transactions \ {req'.pk}
                     /\ \A i \in DOMAIN transactions' :
                           transactions'[i] = transactions[i]
                ELSE UNCHANGED transactions]_vars

\* C8 witness: a POST delete of an id that is not in the table, beside a
\* row that is, answered not-found
C8_Witness ==
    /\ req.view = "delete_transaction"
    /\ req.method = "POST"
    /\ resp.kind = "not_found"
    /\ transactions # <<>>

\* the day after the day a label shows
NextDay(l) ==
    IF l.d < days_in_month(l.y, l.m) THEN [l EXCEPT !.d = l.d + 1]
    ELSE IF l.m < 12 THEN [y |-> l.y, m |-> l.m + 1, d |-> 1]
    ELSE [y |-> l.y + 1, m |-> 1, d |-> 1]

\* C3: every dashboard request is answered with a trend of exactly 7 labels
\* and 7 values, the labels being consecutive calendar dates, oldest first,
\* the last one the anchor: the parsed end_date when a valid one was given,
\* the current date otherwise.  (Stated for the requests without a category
\* parameter, whose handling of the trend is all that can fail.)
C3_TrendIsSevenDaysEndingAtAnchor ==
    (req.view = "dashboard" /\ req.params.category = None) =>
        /\ resp.kind = "dashboard"
        /\ Len(resp.last7_labels) = 7
        /\ Len(resp.last7_values) = 7
        /\ \A i \in 1..6 : resp.last7_labels[i + 1] = NextDay(resp.last7_labels[i])
        /\ LET last == resp.last7_labels[7]
           IN  ymd2ord(last.y, last.m, last.d) = ReqAnchor

\* a string that is a non-negative integer in decimal digits
IsNonNegativeInteger(s) ==
    Len(s) > 0 /\ \A i \in 1..Len(s) : s[i] \in DecimalDigits

\* a string that is a valid date written YYYY-MM-DD
IsDate(s) ==
    /\ Len(s) = 10
    /\ \A i \in {1, 2, 3, 4, 6, 7, 9, 10} : s[i] \in DecimalDigits
    /\ s[5] = "-" /\ s[8] = "-"
    /\ LET y == DecimalValue(SubSeq(s, 1, 4))
           m == DecimalValue(SubSeq(s, 6, 7))
           d == DecimalValue(SubSeq(s, 9, 10))
       IN  y >= 1 /\ m \in 1..12 /\ d >= 1 /\ d <= days_in_month(y, m)

\* the request with every parameter that is not valid left out
Omitted(params) ==
    [start_date |-> IF params.start_date # None /\ IsDate(Get(params.start_date))
                    THEN params.start_date ELSE None,
     end_date   |-> IF params.end_date # None /\ IsDate(Get(params.end_date))
                    THEN params.end_date ELSE None,
     category   |-> IF params.category # None
                       /\ IsNonNegativeInteger(Get(params.category))
                    THEN params.category ELSE None,
     type       |-> IF params.type \in {Some("income"), Some("expense")}
                    THEN params.type ELSE None]

\* the filtered set, the totals, the breakdown and the trend of a context
Results(r) ==
    <<r.transactions, r.total_income, r.total_expense, r.balance,
      r.expense_cat_labels, r.expense_cat_values, r.last7_labels, r.last7_values>>

\* C5: no raw value makes the view raise, and a parameter that is not valid
\* (a category that is not a non-negative integer, a date that is not a
\* valid YYYY-MM-DD date, a type other than income and expense) gives the
\* results of the request without it.  (Stated for the requests without an
\* end date.)
C5_InvalidParameterIsOmittedParameter ==
    (req.view = "dashboard" /\ req.params.end_date = None) =>
        /\ resp.kind = "dashboard"
        /\ Results(resp) \in
              {Results(r) : r \in dashboard_responses(Omitted(req.params), req.today)}

\* the category of the request being served is a well-formed id that no
\* Category has
NoSuchCategory ==
    /\ req.params.category # None
    /\ IsNonNegativeInteger(Get(req.params.category))
    /\ DecimalValue(Get(req.params.category)) \notin DOMAIN categories

\* C6: a request whose category is a well-formed id of no Category is not
\* an error: the filtered set is empty, the three totals are 0, the
\* breakdown is empty and the trend has 7 entries, all 0.  (The claim says
\* the same of every request whose filtered set is empty; it is stated here
\* for the requests with such a category.)
C6_NothingSelectedIsAllZero ==
    (req.view = "dashboard" /\ NoSuchCategory) =>
        /\ resp.kind = "dashboard"
        /\ resp.transactions = {}
        /\ resp.total_income = 0 /\ resp.total_expense = 0 /\ resp.balance = 0
        /\ resp.expense_cat_labels = <<>> /\ resp.expense_cat_values = <<>>
        /\ Len(resp.last7_labels) = 7
        /\ resp.last7_values = [i \in 1..7 |-> 0]

\* C10: the labels of the category breakdown are pairwise distinct.
C10_BreakdownLabelsDistinct ==
    Rendered =>
        \A a, b \in DOMAIN resp.expense_cat_labels :
            resp.expense_cat_labels[a] = resp.expense_cat_labels[b] => a = b

====
